---- MODULE Spec2Model ----
(***************************************************************************)
(* Boost Prompt VS Code extension: model registry (discovery, preferred    *)
(* model resolution, interactive chooser) and the boostPrompt workflow     *)
(* (one request, sequential drain of the streamed fragments).              *)
(*                                                                         *)
(* Text is a sequence of characters.  The host (VS Code) is the            *)
(* environment: it answers the discovery call, the dialogs, the            *)
(* configuration update, the chat request and the fragment stream.         *)
(* Invocations of the entry points are modelled one at a time.             *)
(***************************************************************************)
EXTENDS Integers, Sequences, FiniteSets, TLC

\* ------------------------------------------------------------------ bounds
MaxModels == 2        \* longest list the host's discovery call returns
MaxFragments == 3     \* most fragments one response stream delivers
MaxPatterns == 2      \* longest configured boostPrompt.filePatterns list
MaxInstructionLen == 2  \* longest instruction text the user saves
MaxConcurrentFragments == 2  \* fragments per response of two concurrent boosts

\* ------------------------------------------------------------- value space
Whitespace == {" ", "\n"}

\* JavaScript's undefined, for a text and for an endpoint
Undefined == <<"<undefined>">>
NoModel == [id |-> "<undefined>", name |-> "<undefined>"]
NoUpdate == "<no update>"

\* endpoints the host may expose
HostModels ==
  { [id |-> "auto", name |-> "Auto"],
    [id |-> "g1", name |-> "gpt-x"],
    [id |-> "g2", name |-> "gpt-y"] }

\* persisted values of boostPrompt.preferredModel found at start-up
\* ("" is the unset value, "Auto" names an endpoint the cache never holds)
InitialPreferences == {"", "gpt-x", "Auto"}

\* promptText values handed to the tool entry point
Prompts == { <<>>, <<"p">>, <<" ", "p">>, Undefined }

\* fragments a response stream may deliver
Fragments == { <<>>, <<" ">>, <<"a">>, <<"b">> }

\* lists without repetition of at most n endpoints
ModelLists(n) ==
  { s \in UNION { [1..k -> HostModels] : k \in 0..n } :
      \A i, j \in DOMAIN s : i # j => s[i] # s[j] }

\* ------------------------------------------------- file names and patterns
\* the separators isBoostEnabledForFile splits a file name on
Separators == {"/", "\\"}

\* base names, directory prefixes
NMd == <<"n", ".", "m", "d">>
NPromptMd == <<"n", ".", "p", "r", "o", "m", "p", "t", ".", "m", "d">>
BaseNames == { <<>>, NMd, NPromptMd }
Directories == { <<"d">>, <<"d", "/", "e">> }

\* a file name is a base name, or directory + separator + base name
\* (a name ending with a separator is taken with "/" only: what the
\* matcher does with a trailing backslash depends on the platform)
PlainFile(b) == [open |-> TRUE, dir |-> <<>>, sep |-> <<>>, base |-> b]
FileChoices ==
  { PlainFile(b) : b \in BaseNames }
  \cup { f \in [open : {TRUE}, dir : Directories,
                  sep : { <<sp>> : sp \in Separators }, base : BaseNames] :
            ~(f.sep = <<"\\">> /\ f.base = <<>>) }
NoEditor == [open |-> FALSE, dir |-> <<>>, sep |-> <<>>, base |-> <<>>]
FileName(f) == f.dir \o f.sep \o f.base

\* glob patterns; NonStringPattern is an entry that is not a string
StarPattern == <<"*">>
StarMd == <<"*", ".", "m", "d">>
StarPromptMd == <<"*", ".", "p", "r", "o", "m", "p", "t", ".", "m", "d">>
NonStringPattern == <<"<not a string>">>
Patterns ==
  { StarPattern, StarMd, StarPromptMd, <<"d", "/">>, NonStringPattern }

\* the default the code hands to configuration.get
DefaultFilePatterns == << StarPromptMd >>

\* values of the setting: not set, null, or a list
UnsetPatterns == [kind |-> "unset", list |-> <<>>]
NullPatterns == [kind |-> "null", list |-> <<>>]
ListPatterns(l) == [kind |-> "list", list |-> l]
PatternSettings ==
  { UnsetPatterns, NullPatterns }
  \cup { ListPatterns(l) : l \in UNION { [1..k -> Patterns] : k \in 0..MaxPatterns } }

NoCheck == [result |-> "none", file |-> NoEditor, setting |-> UnsetPatterns]

\* ------------------------------------------------------ instruction file
\* the compiled-in template, as one token
DEFAULT_BOOST_INSTRUCTIONS == <<"You are a professional prompt engineer ...">>

\* boost.prompt.md does not exist
Missing == <<"<missing>">>

\* texts the user may save into boost.prompt.md
UserTexts == UNION { [1..k -> {"u", " "}] : k \in 0..MaxInstructionLen }

NoStoreOp == [op |-> "none", before |-> Missing, io |-> "ok",
              text |-> Missing, raised |-> FALSE]

\* --------------------------------------------------------------- editor
\* a range of the document, as character offsets
Span(s, e) == [start |-> s, end |-> e]
NoSpan == Span(-1, -1)
Spans(doc) == { sp \in [start : 0..Len(doc), end : 0..Len(doc)] : sp.start <= sp.end }

NoDocument == [document |-> <<>>, selection |-> Span(0, 0)]

\* the text of the document a boost command is run on
PromptDocument == <<"p", "q">>

\* where the selection is when the command starts: nothing selected, or
\* the first character
InitialSelections == { Span(0, 0), Span(0, 1) }

\* files a boost command is run on
CommandFiles == { PlainFile(NPromptMd), PlainFile(NMd) }

CmdIdle == [sent |-> NoSpan, cancelRequested |-> FALSE, listener |-> FALSE,
            interval |-> FALSE, reported |-> "none", replaced |-> NoSpan,
            replacedText |-> Undefined]

\* ----------------------------------------------------- concurrent boosts
Calls == {1, 2}

\* the prompt texts of the two calls
ConcurrentPrompts == { <<"p">>, <<"q">> }

\* fragments the two responses may deliver
ConcurrentFragments == { <<"a">>, <<"b">> }

CallIdle == [pc |-> "idle", promptText |-> Undefined, requests |-> 0,
             delivered |-> <<>>, event |-> "none", result |-> Undefined,
             status |-> "none"]

\* ------------------------------------------------------------ pure helpers
\* String.prototype.trim
RECURSIVE TrimStart(_)
TrimStart(s) ==
  IF s = <<>> THEN s
  ELSE IF Head(s) \in Whitespace THEN TrimStart(Tail(s)) ELSE s

RECURSIVE TrimEnd(_)
TrimEnd(s) ==
  IF s = <<>> THEN s
  ELSE IF s[Len(s)] \in Whitespace THEN TrimEnd(SubSeq(s, 1, Len(s) - 1)) ELSE s

Trim(s) == TrimEnd(TrimStart(s))

\* ---------------------------------------------------------------- state
VARIABLES
  cachedAvailableModels,  \* utils.ts module variable: list of endpoints
  discovery,              \* the discovery call started by activate()
  preferredModel,         \* configuration value boostPrompt.preferredModel
  pendingUpdate,          \* configuration update in flight (or NoUpdate)
  inv,                    \* the entry point invocation in progress
  sel,                    \* the getSelectedLanguageModel / selectModel call
  ui,                     \* dialogs and notifications shown by the invocation
  bp,                     \* the boostPrompt call
  lastDiscovery,          \* the last settled initializeAndCacheModels call
  filePatterns,           \* configuration value boostPrompt.filePatterns
  activeFile,             \* file name of the active text editor, if any
  contextKey,             \* context key boostPrompt.filePatternMatches
  lastCheck,              \* the isBoostEnabledForFile call of the last context update
  storage,                \* global storage directory and boost.prompt.md
  lastStoreOp,            \* the last ensureInstructionFile / readInstructionFile call
  editor,                 \* document text and selection of the active editor
  cmd,                    \* the boostPromptWithProgress call
  calls,                  \* two boostPrompt calls running concurrently
  accumulators,           \* the `enhanced` variable of each of the two calls
  arrivals                \* the calls in the order their fragments arrived

filterVars == <<filePatterns, activeFile, contextKey, lastCheck>>

storeVars == <<storage, lastStoreOp>>

cmdVars == <<editor, cmd>>

concVars == <<calls, accumulators, arrivals>>

\* state outside the model registry and the invocation in progress
auxVars == <<filterVars, storeVars, cmdVars, concVars>>

vars == <<cachedAvailableModels, discovery, preferredModel, pendingUpdate,
          inv, sel, ui, bp, lastDiscovery, auxVars>>

InvIdle == [entry |-> "none", pc |-> "idle", promptText |-> Undefined,
            outcome |-> "none", output |-> Undefined]

SelIdle == [fn |-> "none", pc |-> "idle", result |-> NoModel,
            confirm |-> "none", chooser |-> "none",
            prefAtEntry |-> "", cacheAtEntry |-> <<>>]

NoDiscovery == [outcome |-> "none", before |-> <<>>, models |-> <<>>]

BpIdle == [pc |-> "idle", promptText |-> Undefined, model |-> NoModel,
           requests |-> 0, delivered |-> <<>>, enhanced |-> <<>>,
           event |-> "none", result |-> Undefined, status |-> "none"]

\* state once activate() has returned: the cache is still empty and the
\* discovery call is in flight
Init ==
  /\ cachedAvailableModels = <<>>
  /\ discovery = "pending"
  /\ preferredModel \in InitialPreferences
  /\ pendingUpdate = NoUpdate
  /\ inv = InvIdle
  /\ sel = SelIdle
  /\ ui = <<>>
  /\ bp = BpIdle
  /\ lastDiscovery = NoDiscovery
  /\ filePatterns = UnsetPatterns
  /\ activeFile = NoEditor
  /\ contextKey = FALSE
  /\ lastCheck = NoCheck
  /\ storage = [dir |-> TRUE, file |-> DEFAULT_BOOST_INSTRUCTIONS]
  /\ lastStoreOp = NoStoreOp
  /\ editor = NoDocument
  /\ cmd = CmdIdle
  /\ calls = [i \in Calls |-> CallIdle]
  /\ accumulators = [i \in Calls |-> <<>>]
  /\ arrivals = <<>>

\* ------------------------------------------------------- model discovery
DiscoveredCacheUnfiltered(cache, models) ==
  IF Len(models) > 0 THEN models ELSE cache

\* initializeAndCacheModels after the host call resolved with models
DiscoveredCache(cache, models) ==
  LET filteredModels == SelectSeq(models, LAMBDA m : m.id # "auto")
  IN IF Len(models) > 0 THEN filteredModels ELSE cache

DiscoverResolve ==
  /\ discovery = "pending"
  /\ \E models \in ModelLists(MaxModels) :
       /\ cachedAvailableModels' = DiscoveredCache(cachedAvailableModels, models)
       /\ lastDiscovery' = [outcome |-> "resolved",
                            before |-> cachedAvailableModels,
                            models |-> models]
  /\ discovery' = "done"
  /\ UNCHANGED <<auxVars, preferredModel, pendingUpdate, inv, sel, ui, bp>>

DiscoverCatchClears(cache) == <<>>

\* catch of initializeAndCacheModels: the error is logged
discoverCatch(cache) == cache

\* the host call throws
DiscoverReject ==
  /\ discovery = "pending"
  /\ discovery' = "failed"
  /\ cachedAvailableModels' = discoverCatch(cachedAvailableModels)
  /\ lastDiscovery' = [outcome |-> "threw",
                       before |-> cachedAvailableModels,
                       models |-> <<>>]
  /\ UNCHANGED <<auxVars, preferredModel, pendingUpdate, inv, sel, ui, bp>>

\* initializeAndCacheModels is called again, up to its await of the host
DiscoverCall ==
  /\ discovery \in {"done", "failed"}
  /\ discovery' = "pending"
  /\ UNCHANGED <<auxVars, cachedAvailableModels, preferredModel,
                 pendingUpdate, inv, sel, ui, bp, lastDiscovery>>

\* ------------------------------------------------------- model selection
FindByIdInsteadOfName(cache, modelName) ==
  LET idx == { i \in DOMAIN cache : cache[i].id = modelName }
  IN IF idx = {} THEN NoModel
     ELSE cache[CHOOSE i \in idx : \A j \in idx : i <= j]

findModelByName(cache, modelName) ==
  LET idx == { i \in DOMAIN cache : cache[i].name = modelName }
  IN IF idx = {} THEN NoModel
     ELSE cache[CHOOSE i \in idx : \A j \in idx : i <= j]

Returned(model, shown) ==
  [pc |-> "returned", result |-> model, shown |-> shown, chooser |-> "none",
   confirm |-> "none"]

\* selectModel up to its await of showQuickPick
selectModelBegin(cache) ==
  IF Len(cache) = 0
  THEN Returned(NoModel, <<"error:NoModelsAvailable">>)
  ELSE [pc |-> "chooser", result |-> NoModel, shown |-> <<"quickPick">>,
        chooser |-> "shown", confirm |-> "none"]

GetSelectedWithoutEmptyCheck(cache, preferredName) ==
  IF preferredName # ""
  THEN LET preferred == findModelByName(cache, preferredName)
       IN IF preferred # NoModel
          THEN Returned(preferred, <<>>)
          ELSE [pc |-> "confirm", result |-> NoModel,
                shown |-> <<"warning:PreferredNotFound">>,
                chooser |-> "none", confirm |-> "shown"]
  ELSE selectModelBegin(cache)

\* getSelectedLanguageModel up to its first await (or its return)
getSelectedLanguageModelBegin(cache, preferredName) ==
  IF Len(cache) = 0
  THEN Returned(NoModel, <<"error:NoModelsAvailable">>)
  ELSE IF preferredName # ""
       THEN LET preferred == findModelByName(cache, preferredName)
            IN IF preferred # NoModel
               THEN Returned(preferred, <<>>)
               ELSE [pc |-> "confirm", result |-> NoModel,
                     shown |-> <<"warning:PreferredNotFound">>,
                     chooser |-> "none", confirm |-> "shown"]
       ELSE selectModelBegin(cache)

ConfirmIgnored(cache, action) == selectModelBegin(cache)

\* getSelectedLanguageModel after showWarningMessage resolved with action
afterConfirm(cache, action) ==
  IF action # "Select Model"
  THEN Returned(NoModel, <<>>)
  ELSE selectModelBegin(cache)

PickReturnsBeforeWrite(selected) ==
  IF selected # NoModel
  THEN [pc |-> "returned", result |-> selected, update |-> selected.name,
        shown |-> <<"info:Selected">>]
  ELSE [pc |-> "returned", result |-> NoModel, update |-> NoUpdate,
        shown |-> <<>>]

DismissClearsPreference(selected) ==
  IF selected # NoModel
  THEN [pc |-> "saving", result |-> selected, update |-> selected.name,
        shown |-> <<"info:Selected">>]
  ELSE [pc |-> "saving", result |-> NoModel, update |-> "",
        shown |-> <<>>]

\* selectModel after showQuickPick resolved with selected (NoModel: dismissed)
afterQuickPick(selected) ==
  IF selected # NoModel
  THEN [pc |-> "saving", result |-> selected, update |-> selected.name,
        shown |-> <<"info:Selected">>]
  ELSE [pc |-> "returned", result |-> NoModel, update |-> NoUpdate,
        shown |-> <<>>]

\* a call of fn whose synchronous part ended in o
SelCall(fn, o) ==
  [fn |-> fn, pc |-> o.pc, result |-> o.result, confirm |-> o.confirm,
   chooser |-> o.chooser, prefAtEntry |-> preferredModel,
   cacheAtEntry |-> cachedAvailableModels]

NoInvocationRunning == inv.pc \in {"idle", "done"}

\* the programmatic tool: BoostPromptTool.invoke up to its first await
ToolInvoke ==
  /\ NoInvocationRunning
  /\ \E p \in Prompts :
       inv' = [entry |-> "tool", pc |-> "selecting", promptText |-> p,
               outcome |-> "none", output |-> Undefined]
  /\ LET o == getSelectedLanguageModelBegin(cachedAvailableModels, preferredModel)
     IN /\ sel' = SelCall("getSelectedLanguageModel", o)
        /\ ui' = o.shown
  /\ bp' = BpIdle
  /\ UNCHANGED <<lastDiscovery, auxVars, cachedAvailableModels, discovery, preferredModel, pendingUpdate>>

\* the command boostPrompt.selectModel
SelectModelCommand ==
  /\ NoInvocationRunning
  /\ inv' = [entry |-> "selectModel", pc |-> "selecting",
             promptText |-> Undefined, outcome |-> "none", output |-> Undefined]
  /\ LET o == selectModelBegin(cachedAvailableModels)
     IN /\ sel' = SelCall("selectModel", o)
        /\ ui' = o.shown
  /\ bp' = BpIdle
  /\ UNCHANGED <<lastDiscovery, auxVars, cachedAvailableModels, discovery, preferredModel, pendingUpdate>>

\* the user answers the "preferred model not found" warning
ConfirmAnswer ==
  /\ sel.pc = "confirm"
  /\ \E action \in {"Select Model", "<dismissed>"} :
       LET o == afterConfirm(cachedAvailableModels, action)
       IN /\ sel' = [sel EXCEPT !.pc = o.pc, !.result = o.result,
                                !.chooser = o.chooser,
                                !.confirm = IF action = "Select Model"
                                            THEN "accepted" ELSE "declined"]
          /\ ui' = ui \o o.shown
  /\ UNCHANGED <<lastDiscovery, auxVars, cachedAvailableModels, discovery, preferredModel,
                 pendingUpdate, inv, bp>>

\* the user picks an entry of the quick pick, or dismisses it
ChooserAnswer ==
  /\ sel.pc = "chooser"
  /\ \E selected \in {cachedAvailableModels[i] : i \in DOMAIN cachedAvailableModels}
                     \cup {NoModel} :
       LET o == afterQuickPick(selected)
       IN /\ sel' = [sel EXCEPT !.pc = o.pc, !.result = o.result,
                                !.chooser = IF selected # NoModel
                                            THEN "picked" ELSE "dismissed"]
          /\ pendingUpdate' = o.update
          /\ ui' = ui \o o.shown
  /\ UNCHANGED <<lastDiscovery, auxVars, cachedAvailableModels, discovery, preferredModel, inv, bp>>

\* the configuration update of setPreferredModel completes
UpdateResolve ==
  /\ pendingUpdate # NoUpdate
  /\ preferredModel' = pendingUpdate
  /\ pendingUpdate' = NoUpdate
  /\ sel' = IF sel.pc = "saving" THEN [sel EXCEPT !.pc = "returned"] ELSE sel
  /\ UNCHANGED <<lastDiscovery, auxVars, cachedAvailableModels, discovery, inv, ui, bp>>

\* the configuration update fails: setPreferredModel and selectModel reject
UpdateReject ==
  /\ pendingUpdate # NoUpdate
  /\ pendingUpdate' = NoUpdate
  /\ sel' = IF sel.pc = "saving"
            THEN [sel EXCEPT !.pc = "raised", !.result = NoModel] ELSE sel
  /\ UNCHANGED <<lastDiscovery, auxVars, cachedAvailableModels, discovery, preferredModel, inv, ui, bp>>

\* the selectModel command ends with the call
SelectModelCommandReturn ==
  /\ inv.entry = "selectModel"
  /\ inv.pc = "selecting"
  /\ sel.pc \in {"returned", "raised"}
  /\ inv' = [inv EXCEPT !.pc = "done",
                         !.outcome = IF sel.pc = "raised" THEN "raised"
                                     ELSE "returned"]
  /\ UNCHANGED <<lastDiscovery, auxVars, cachedAvailableModels, discovery, preferredModel,
                 pendingUpdate, sel, ui, bp>>

\* ------------------------------------------------------------ boostPrompt
\* the result boostPrompt gives back with the caller's own text
Failed(promptText) ==
  [pc |-> "returned", result |-> promptText, status |-> "failed"]

\* catch of the outer try: any other exception
outerCatch(promptText) == Failed(promptText)

\* catch around model.sendRequest
SendCatchLosesPrompt(promptText) ==
  [pc |-> "returned", result |-> <<>>, status |-> "failed"]

sendCatch(promptText) == Failed(promptText)

\* sendRequest resolved with no response object
noResponse(promptText) == Failed(promptText)

\* catch around the drain of response.text
StreamCatchRethrows(promptText, enhanced) ==
  [pc |-> "raised", result |-> Undefined, status |-> "none"]

StreamCatchKeepsPartial(promptText, enhanced) ==
  [pc |-> "returned", result |-> enhanced, status |-> "failed"]

streamCatch(promptText, enhanced) == Failed(promptText)

\* enhanced += chunk
AccumulateInFront(enhanced, chunk) == chunk \o enhanced

Accumulate(enhanced, chunk) == enhanced \o chunk

AfterDrainWithoutTrim(promptText, enhanced) ==
  IF enhanced = <<>>
  THEN Failed(promptText)
  ELSE [pc |-> "returned", result |-> enhanced, status |-> "success"]

\* after the drain: the empty check and the success return
afterDrain(promptText, enhanced) ==
  IF Trim(enhanced) = <<>>
  THEN Failed(promptText)
  ELSE [pc |-> "returned", result |-> enhanced, status |-> "success"]

BeginSendsTwice(promptText) ==
  IF promptText = Undefined
  THEN outerCatch(promptText) @@ [event |-> "entryThrew", requests |-> 0]
  ELSE [pc |-> "sending", result |-> Undefined, status |-> "none",
        event |-> "none", requests |-> 2]

\* boostPrompt up to its await of sendRequest: reading promptText.length
\* of a missing promptText throws a TypeError inside the outer try
boostPromptBegin(promptText) ==
  IF promptText = Undefined
  THEN outerCatch(promptText) @@ [event |-> "entryThrew", requests |-> 0]
  ELSE [pc |-> "sending", result |-> Undefined, status |-> "none",
        event |-> "none", requests |-> 1]

\* BoostPromptTool.invoke after getSelectedLanguageModel settled
ToolAfterSelect ==
  /\ inv.entry = "tool"
  /\ inv.pc = "selecting"
  /\ sel.pc \in {"returned", "raised"}
  /\ IF sel.pc = "raised"
     THEN /\ inv' = [inv EXCEPT !.pc = "done", !.outcome = "raised"]
          /\ UNCHANGED <<ui, bp>>
     ELSE IF sel.result = NoModel
     THEN /\ ui' = Append(ui, "warning:NoModelSelected")
          /\ inv' = [inv EXCEPT !.pc = "done", !.outcome = "undefined"]
          /\ UNCHANGED bp
     ELSE /\ inv' = [inv EXCEPT !.pc = "boosting"]
          /\ bp' = [BpIdle EXCEPT !.pc = "pending",
                                  !.promptText = inv.promptText,
                                  !.model = sel.result]
          /\ UNCHANGED ui
  /\ UNCHANGED <<lastDiscovery, auxVars, cachedAvailableModels, discovery, preferredModel,
                 pendingUpdate, sel>>

BoostPromptEnter ==
  /\ bp.pc = "pending"
  /\ LET o == boostPromptBegin(bp.promptText)
     IN bp' = [bp EXCEPT !.pc = o.pc, !.result = o.result,
                         !.status = o.status, !.event = o.event,
                         !.requests = o.requests]
  /\ UNCHANGED <<lastDiscovery, auxVars, cachedAvailableModels, discovery, preferredModel,
                 pendingUpdate, inv, sel, ui>>

BpSettle(event, o) ==
  /\ bp' = [bp EXCEPT !.pc = o.pc, !.result = o.result,
                      !.status = o.status, !.event = event]
  /\ UNCHANGED <<lastDiscovery, auxVars, cachedAvailableModels, discovery, preferredModel,
                 pendingUpdate, inv, sel, ui>>

\* model.sendRequest rejects
SendRequestThrows ==
  /\ bp.pc = "sending"
  /\ BpSettle("sendThrew", sendCatch(bp.promptText))

\* model.sendRequest resolves with nothing
SendRequestNoResponse ==
  /\ bp.pc = "sending"
  /\ BpSettle("noResponse", noResponse(bp.promptText))

\* model.sendRequest resolves with a response: the drain starts
SendRequestResponds ==
  /\ bp.pc = "sending"
  /\ bp' = [bp EXCEPT !.pc = "streaming"]
  /\ UNCHANGED <<lastDiscovery, auxVars, cachedAvailableModels, discovery, preferredModel,
                 pendingUpdate, inv, sel, ui>>

\* response.text yields the next fragment
StreamFragment ==
  /\ bp.pc = "streaming"
  /\ Len(bp.delivered) < MaxFragments
  /\ \E chunk \in Fragments :
       bp' = [bp EXCEPT !.delivered = Append(@, chunk),
                        !.enhanced = Accumulate(@, chunk)]
  /\ UNCHANGED <<lastDiscovery, auxVars, cachedAvailableModels, discovery, preferredModel,
                 pendingUpdate, inv, sel, ui>>

\* response.text throws
StreamThrows ==
  /\ bp.pc = "streaming"
  /\ BpSettle("streamThrew", streamCatch(bp.promptText, bp.enhanced))

\* response.text is exhausted
StreamCompletes ==
  /\ bp.pc = "streaming"
  /\ BpSettle("completed", afterDrain(bp.promptText, bp.enhanced))

\* BoostPromptTool.invoke after boostPrompt settled
ToolReturn ==
  /\ inv.entry = "tool"
  /\ inv.pc = "boosting"
  /\ bp.pc \in {"returned", "raised"}
  /\ inv' = IF bp.pc = "raised"
            THEN [inv EXCEPT !.pc = "done", !.outcome = "raised"]
            ELSE [inv EXCEPT !.pc = "done", !.outcome = "text",
                             !.output = bp.result]
  /\ UNCHANGED <<lastDiscovery, auxVars, cachedAvailableModels, discovery, preferredModel,
                 pendingUpdate, sel, ui, bp>>

\* ------------------------------------------------------ file eligibility
\* WorkspaceConfiguration.get(key, defaultValue)
configGet(setting, defaultValue) ==
  IF setting.kind = "unset" THEN ListPatterns(defaultValue) ELSE setting

\* the text after the last separator: fileName.split(/[/\\]/).pop()
RECURSIVE LastSegment(_, _)
LastSegment(s, seps) ==
  IF s = <<>> THEN <<>>
  ELSE IF s[Len(s)] \in seps THEN <<>>
       ELSE LastSegment(SubSeq(s, 1, Len(s) - 1), seps) \o <<s[Len(s)]>>

\* String.prototype.split on one separator character
RECURSIVE SplitOn(_, _)
SplitOn(s, c) ==
  IF \A i \in DOMAIN s : s[i] # c THEN <<s>>
  ELSE LET k == CHOOSE i \in DOMAIN s :
                  s[i] = c /\ \A j \in 1..(i - 1) : s[j] # c
       IN <<SubSeq(s, 1, k - 1)>> \o SplitOn(SubSeq(s, k + 1, Len(s)), c)

\* const baseName = fileName.split(/[/\\]/).pop() || fileName
baseName(fileName) ==
  LET last == LastSegment(fileName, Separators)
  IN IF last # <<>> THEN last ELSE fileName

\* minimatch on one path segment: literals, "?" and "*"
RECURSIVE Wild(_, _)
Wild(s, p) ==
  IF p = <<>> THEN s = <<>>
  ELSE IF Head(p) = "*"
       THEN Wild(s, Tail(p)) \/ (s # <<>> /\ Wild(Tail(s), p))
       ELSE IF Head(p) = "?"
            THEN s # <<>> /\ Wild(Tail(s), Tail(p))
            ELSE s # <<>> /\ Head(s) = Head(p) /\ Wild(Tail(s), Tail(p))

\* a segment pattern that starts with a wildcard matches neither the empty
\* segment nor a segment that starts with a dot
MatchSegment(seg, pat) ==
  IF pat # <<>> /\ Head(pat) \in {"*", "?"} /\ (seg = <<>> \/ Head(seg) = ".")
  THEN FALSE
  ELSE Wild(seg, pat)

\* minimatch's matchOne: segment by segment; a pattern that runs out is
\* accepted only before the empty segment a trailing slash leaves
RECURSIVE MatchParts(_, _)
MatchParts(f, p) ==
  IF f = <<>> THEN p = <<>>
  ELSE IF p = <<>> THEN Len(f) = 1 /\ Head(f) = <<>>
       ELSE MatchSegment(Head(f), Head(p)) /\ MatchParts(Tail(f), Tail(p))

\* minimatch(name, pattern): a pattern that is not a string makes it throw
minimatch(name, pattern) ==
  IF pattern = NonStringPattern THEN "throws"
  ELSE IF pattern = <<>> THEN (IF name = <<>> THEN "match" ELSE "nomatch")
  ELSE IF MatchParts(SplitOn(name, "/"), SplitOn(pattern, "/"))
       THEN "match" ELSE "nomatch"

\* patterns.some((pattern) => minimatch(baseName, pattern))
RECURSIVE SomeMatches(_, _)
SomeMatches(name, patterns) ==
  IF patterns = <<>> THEN "false"
  ELSE LET result == minimatch(name, Head(patterns))
       IN IF result = "throws" THEN "raised"
          ELSE IF result = "match" THEN "true"
          ELSE SomeMatches(name, Tail(patterns))

EnabledWithoutWildcardCheck(fileName, setting) ==
  LET patterns == configGet(setting, DefaultFilePatterns)
  IN IF patterns.kind = "null" \/ Len(patterns.list) = 0 THEN "true"
     ELSE SomeMatches(baseName(fileName), patterns.list)

\* isBoostEnabledForFile: "true", "false", or "raised" when it throws
isBoostEnabledForFile(fileName, setting) ==
  LET patterns == configGet(setting, DefaultFilePatterns)
  IN IF patterns.kind = "null" \/ Len(patterns.list) = 0 THEN "true"
     ELSE IF \E i \in DOMAIN patterns.list : patterns.list[i] = StarPattern
          THEN "true"
          ELSE SomeMatches(baseName(fileName), patterns.list)

\* updateContext: recompute the context key for the active editor; when
\* isBoostEnabledForFile throws, the rejection is logged and the key stays
updateContext(file, setting) ==
  IF ~file.open
  THEN /\ contextKey' = FALSE
       /\ lastCheck' = NoCheck
  ELSE LET enabled == isBoostEnabledForFile(FileName(file), setting)
       IN /\ lastCheck' = [result |-> enabled, file |-> file,
                           setting |-> setting]
          /\ contextKey' = IF enabled = "raised" THEN contextKey
                           ELSE (enabled = "true")

FilterFrame ==
  UNCHANGED <<cachedAvailableModels, discovery, preferredModel,
              pendingUpdate, inv, sel, ui, bp, lastDiscovery, storeVars,
              cmdVars, concVars>>

\* the active text editor changes
ChangeActiveEditor ==
  /\ \E file \in FileChoices \cup {NoEditor} :
       /\ file # activeFile
       /\ activeFile' = file
       /\ updateContext(file, filePatterns)
  /\ UNCHANGED filePatterns
  /\ FilterFrame

\* the user changes boostPrompt.filePatterns
ChangeFilePatterns ==
  /\ \E setting \in PatternSettings :
       /\ setting # filePatterns
       /\ filePatterns' = setting
       /\ updateContext(activeFile, setting)
  /\ UNCHANGED activeFile
  /\ FilterFrame

\* ------------------------------------------------ instruction template
EnsureOverwrites(st, io) ==
  IF ~st.dir /\ io = "mkdirFails"
  THEN [storage |-> st, raised |-> FALSE]
  ELSE IF io = "writeFails"
       THEN [storage |-> [dir |-> TRUE, file |-> st.file], raised |-> FALSE]
       ELSE [storage |-> [dir |-> TRUE, file |-> DEFAULT_BOOST_INSTRUCTIONS],
             raised |-> FALSE]

\* ensureInstructionFile; io says which file system call fails, if any.
\* Every error is caught and logged.
ensureInstructionFile(st, io) ==
  IF ~st.dir /\ io = "mkdirFails"
  THEN [storage |-> st, raised |-> FALSE]
  ELSE IF st.file # Missing
       THEN [storage |-> [dir |-> TRUE, file |-> st.file], raised |-> FALSE]
       ELSE IF io = "writeFails"
            THEN [storage |-> [dir |-> TRUE, file |-> Missing],
                  raised |-> FALSE]
            ELSE [storage |-> [dir |-> TRUE,
                               file |-> DEFAULT_BOOST_INSTRUCTIONS],
                  raised |-> FALSE]

\* readInstructionFile; io = "readFails" when readFileSync throws
readInstructionFile(st, io) ==
  IF st.file # Missing /\ io # "readFails"
  THEN st.file
  ELSE DEFAULT_BOOST_INSTRUCTIONS

StoreFrame ==
  UNCHANGED <<cachedAvailableModels, discovery, preferredModel,
              pendingUpdate, inv, sel, ui, bp, lastDiscovery, filterVars,
              cmdVars, concVars>>

\* activate() of a later session calls ensureInstructionFile again
EnsureInstructionFile ==
  /\ \E io \in {"ok", "mkdirFails", "writeFails"} :
       LET o == ensureInstructionFile(storage, io)
       IN /\ storage' = o.storage
          /\ lastStoreOp' = [op |-> "ensure", before |-> storage.file,
                             io |-> io, text |-> o.storage.file,
                             raised |-> o.raised]
  /\ StoreFrame

\* boostPrompt reads the instructions for a request
ReadInstructionFile ==
  /\ \E io \in {"ok", "readFails"} :
       lastStoreOp' = [op |-> "read", before |-> storage.file, io |-> io,
                       text |-> readInstructionFile(storage, io),
                       raised |-> FALSE]
  /\ UNCHANGED storage
  /\ StoreFrame

\* the user saves boost.prompt.md from an editor
UserSavesInstructions ==
  /\ storage.dir
  /\ \E text \in UserTexts : storage' = [storage EXCEPT !.file = text]
  /\ UNCHANGED lastStoreOp
  /\ StoreFrame

\* the user deletes boost.prompt.md, or the whole storage directory
UserDeletesInstructions ==
  /\ storage.dir
  /\ \E keepDir \in BOOLEAN : storage' = [dir |-> keepDir, file |-> Missing]
  /\ UNCHANGED lastStoreOp
  /\ StoreFrame

\* ---------------------------------------------------- the boost command
\* Selection.isEmpty
isEmpty(selection) == selection.start = selection.end

\* TextDocument.getText(range)
getText(document, range) == SubSeq(document, range.start + 1, range.end)

\* the prompt text the progress callback captures
capturedText(ed) ==
  IF isEmpty(ed.selection) THEN ed.document
  ELSE getText(ed.document, ed.selection)

\* the range the edit callback replaces: first position to the end of the
\* last line when the selection is empty, the selection otherwise
editRange(ed) ==
  IF isEmpty(ed.selection) THEN Span(0, Len(ed.document)) ELSE ed.selection

\* TextEditorEdit.replace
replace(document, range, text) ==
  SubSeq(document, 1, range.start) \o text
    \o SubSeq(document, range.end + 1, Len(document))

CommandRunning == inv.entry = "command" /\ inv.pc = "boosting"

CommandFrame ==
  UNCHANGED <<cachedAvailableModels, discovery, preferredModel,
              pendingUpdate, lastDiscovery, storeVars, concVars>>

\* the user opens a prompt document and places the selection
OpenEditor ==
  /\ ~activeFile.open
  /\ \E file \in CommandFiles :
       /\ activeFile' = file
       /\ updateContext(file, filePatterns)
  /\ \E selection \in InitialSelections :
       editor' = [document |-> PromptDocument, selection |-> selection]
  /\ UNCHANGED <<filePatterns, inv, sel, ui, bp, cmd>>
  /\ CommandFrame

CommandDone(outcome) ==
  [entry |-> "command", pc |-> "done", promptText |-> Undefined,
   outcome |-> outcome, output |-> Undefined]

\* the command boostPrompt.boost: boostPromptWithProgress up to its first
\* await (the first command of the session: each further one would start
\* from the document the one before left)
BoostCommand ==
  /\ inv.pc = "idle"
  /\ activeFile.open
  /\ LET enabled == isBoostEnabledForFile(FileName(activeFile), filePatterns)
         o == getSelectedLanguageModelBegin(cachedAvailableModels,
                                            preferredModel)
     IN IF enabled = "raised"
        THEN /\ inv' = CommandDone("raised")
             /\ sel' = SelIdle
             /\ ui' = <<>>
        ELSE IF enabled = "false"
        THEN /\ inv' = CommandDone("notEnabled")
             /\ sel' = SelIdle
             /\ ui' = <<"error:NotEnabled">>
        ELSE /\ inv' = [entry |-> "command", pc |-> "selecting",
                        promptText |-> Undefined, outcome |-> "none",
                        output |-> Undefined]
             /\ sel' = SelCall("getSelectedLanguageModel", o)
             /\ ui' = o.shown
  /\ bp' = BpIdle
  /\ cmd' = CmdIdle
  /\ UNCHANGED <<filterVars, editor>>
  /\ CommandFrame

\* after getSelectedLanguageModel settled: the progress callback runs up
\* to the await of boostPrompt
CommandAfterSelect ==
  /\ inv.entry = "command"
  /\ inv.pc = "selecting"
  /\ sel.pc \in {"returned", "raised"}
  /\ IF sel.pc = "raised"
     THEN /\ inv' = CommandDone("raised")
          /\ UNCHANGED <<ui, bp, cmd>>
     ELSE IF sel.result = NoModel
     THEN /\ ui' = Append(ui, "warning:NoModelSelected")
          /\ inv' = CommandDone("noModel")
          /\ UNCHANGED <<bp, cmd>>
     ELSE LET text == capturedText(editor)
          IN /\ inv' = [inv EXCEPT !.pc = "boosting", !.promptText = text]
             /\ cmd' = [CmdIdle EXCEPT !.sent = editRange(editor),
                                       !.interval = TRUE,
                                       !.listener = TRUE]
             /\ bp' = [BpIdle EXCEPT !.pc = "pending",
                                     !.promptText = text,
                                     !.model = sel.result]
             /\ UNCHANGED ui
  /\ UNCHANGED <<filterVars, editor, sel>>
  /\ CommandFrame

\* the user presses Cancel on the progress notification: the token fires
\* cancelHandler. boostPrompt was given a token of its own, so the request
\* and the drain do not see it.
UserCancels ==
  /\ CommandRunning
  /\ bp.pc # "pending"
  /\ ~cmd.cancelRequested
  /\ cmd' = [cmd EXCEPT !.cancelRequested = TRUE,
                        !.interval = IF cmd.listener THEN FALSE ELSE @]
  /\ ui' = IF cmd.listener THEN Append(ui, "info:Cancelled") ELSE ui
  /\ UNCHANGED <<filterVars, editor, inv, sel, bp>>
  /\ CommandFrame

\* the user moves the selection while the request is in flight
UserChangesSelection ==
  /\ CommandRunning
  /\ \E selection \in Spans(editor.document) :
       /\ selection # editor.selection
       /\ editor' = [editor EXCEPT !.selection = selection]
  /\ UNCHANGED <<filterVars, inv, sel, ui, bp, cmd>>
  /\ CommandFrame

\* the user deletes the text of the document while the request is in
\* flight
UserDeletes ==
  /\ CommandRunning
  /\ editor.document # <<>>
  /\ editor' = [document |-> replace(editor.document,
                                     Span(0, Len(editor.document)), <<>>),
                selection |-> Span(0, 0)]
  /\ UNCHANGED <<filterVars, inv, sel, ui, bp, cmd>>
  /\ CommandFrame

\* the interval callback: progress.report with the next status message
ProgressTick ==
  /\ inv.entry = "command"
  /\ cmd.interval
  /\ cmd' = [cmd EXCEPT !.reported = IF inv.pc = "done" THEN "afterReturn"
                                     ELSE "running"]
  /\ UNCHANGED <<filterVars, editor, inv, sel, ui, bp>>
  /\ CommandFrame

BranchEditsOnFailed(settled, status, cancelRequested) ==
  IF settled = "raised" THEN "error"
  ELSE IF status = "terminated" THEN "terminated"
  ELSE IF status = "failed" THEN "edit"
  ELSE IF cancelRequested THEN "cancelled"
  ELSE IF status = "success" THEN "edit"
  ELSE "none"

BranchIgnoresCancel(settled, status, cancelRequested) ==
  IF settled = "raised" THEN "error"
  ELSE IF status = "terminated" THEN "terminated"
  ELSE IF status = "failed" THEN "failed"
  ELSE IF status = "success" THEN "edit"
  ELSE "none"

\* the branch the progress callback takes once the await of boostPrompt
\* settled
branchAfterBoost(settled, status, cancelRequested) ==
  IF settled = "raised" THEN "error"
  ELSE IF status = "terminated" THEN "terminated"
  ELSE IF status = "failed" THEN "failed"
  ELSE IF cancelRequested THEN "cancelled"
  ELSE IF status = "success" THEN "edit"
  ELSE "none"

\* the notification of a branch
notification(branch) ==
  CASE branch = "error" -> <<"error:ErrorOccurred">>
    [] branch = "terminated" -> <<"warning:Terminated">>
    [] branch = "failed" -> <<"error:Failed">>
    [] branch = "cancelled" -> <<"info:Cancelled">>
    [] branch = "replaced" -> <<"info:Success">>
    [] OTHER -> <<>>

FinallyKeepsInterval(c) == [c EXCEPT !.listener = FALSE]

\* the finally block: clearInterval and cancelDisposable.dispose
finallyBlock(c) == [c EXCEPT !.interval = FALSE, !.listener = FALSE]

\* the progress callback after boostPrompt settled, with its catch and
\* finally blocks; editor.edit may reject (the editor was closed)
CommandAfterBoost ==
  /\ CommandRunning
  /\ bp.pc \in {"returned", "raised"}
  /\ \E editThrows \in BOOLEAN :
       LET branch == branchAfterBoost(bp.pc, bp.status, cmd.cancelRequested)
           range == editRange(editor)
           outcome == IF branch # "edit" THEN branch
                      ELSE IF editThrows THEN "error" ELSE "replaced"
       IN /\ IF outcome = "replaced"
             THEN /\ editor' = [document |-> replace(editor.document, range,
                                                     bp.result),
                                selection |-> Span(range.start,
                                                   range.start + Len(bp.result))]
                  /\ cmd' = [finallyBlock(cmd) EXCEPT
                               !.replaced = range,
                               !.replacedText = getText(editor.document, range)]
                  /\ inv' = [inv EXCEPT !.pc = "done", !.outcome = outcome,
                                        !.output = bp.result]
             ELSE /\ UNCHANGED editor
                  /\ cmd' = finallyBlock(cmd)
                  /\ inv' = [inv EXCEPT !.pc = "done", !.outcome = outcome]
          /\ ui' = ui \o notification(outcome)
  /\ UNCHANGED <<filterVars, sel, bp>>
  /\ CommandFrame

\* ----------------------------------------------- two concurrent boosts
SharedAccumulator(i) == 1

\* the accumulator a call appends to: `let enhanced` is local to the call
accumulatorOf(i) == i

ConcurrentFrame ==
  UNCHANGED <<cachedAvailableModels, discovery, preferredModel,
              pendingUpdate, inv, sel, ui, bp, lastDiscovery, filterVars,
              storeVars, cmdVars>>

CallSettle(i, event, o) ==
  /\ calls' = [calls EXCEPT ![i] = [@ EXCEPT !.pc = o.pc,
                                             !.result = o.result,
                                             !.status = o.status,
                                             !.event = event]]
  /\ UNCHANGED <<accumulators, arrivals>>
  /\ ConcurrentFrame

\* a caller starts boostPrompt: the call runs up to its await of sendRequest
CallBoostPrompt ==
  \E i \in Calls, p \in ConcurrentPrompts :
    /\ calls[i].pc = "idle"
    /\ LET o == boostPromptBegin(p)
       IN calls' = [calls EXCEPT ![i] = [CallIdle EXCEPT
                                           !.pc = o.pc,
                                           !.promptText = p,
                                           !.requests = o.requests]]
    /\ UNCHANGED <<accumulators, arrivals>>
    /\ ConcurrentFrame

\* model.sendRequest of a call rejects, or resolves with nothing
CallSendRequestFails ==
  \E i \in Calls :
    /\ calls[i].pc = "sending"
    /\ \/ CallSettle(i, "sendThrew", sendCatch(calls[i].promptText))
       \/ CallSettle(i, "noResponse", noResponse(calls[i].promptText))

\* model.sendRequest of a call resolves: `let enhanced = ""`
CallSendRequestResponds ==
  \E i \in Calls :
    /\ calls[i].pc = "sending"
    /\ calls' = [calls EXCEPT ![i] = [@ EXCEPT !.pc = "streaming"]]
    /\ accumulators' = [accumulators EXCEPT ![accumulatorOf(i)] = <<>>]
    /\ UNCHANGED arrivals
    /\ ConcurrentFrame

\* the response of a call yields its next fragment
CallStreamFragment ==
  \E i \in Calls, chunk \in ConcurrentFragments :
    /\ calls[i].pc = "streaming"
    /\ Len(calls[i].delivered) < MaxConcurrentFragments
    /\ calls' = [calls EXCEPT ![i] = [@ EXCEPT !.delivered = Append(@, chunk)]]
    /\ accumulators' = [accumulators EXCEPT
                          ![accumulatorOf(i)] = Accumulate(@, chunk)]
    /\ arrivals' = Append(arrivals, i)
    /\ ConcurrentFrame

\* the response of a call throws
CallStreamThrows ==
  \E i \in Calls :
    /\ calls[i].pc = "streaming"
    /\ CallSettle(i, "streamThrew",
                  streamCatch(calls[i].promptText,
                              accumulators[accumulatorOf(i)]))

\* the response of a call is exhausted
CallStreamCompletes ==
  \E i \in Calls :
    /\ calls[i].pc = "streaming"
    /\ CallSettle(i, "completed",
                  afterDrain(calls[i].promptText,
                             accumulators[accumulatorOf(i)]))

Next ==
  \/ DiscoverResolve
  \/ DiscoverReject
  \/ ToolInvoke
  \/ SelectModelCommand
  \/ ConfirmAnswer
  \/ ChooserAnswer
  \/ UpdateResolve
  \/ UpdateReject
  \/ SelectModelCommandReturn
  \/ ToolAfterSelect
  \/ BoostPromptEnter
  \/ SendRequestThrows
  \/ SendRequestNoResponse
  \/ SendRequestResponds
  \/ StreamFragment
  \/ StreamThrows
  \/ StreamCompletes
  \/ ToolReturn

Spec == Init /\ [][Next]_vars

\* the endpoint answers every request, and every response stream ends or
\* throws
EndpointAnswers ==
  /\ WF_vars(BoostPromptEnter)
  /\ WF_vars(SendRequestThrows \/ SendRequestNoResponse \/ SendRequestResponds)
  /\ WF_vars(StreamThrows \/ StreamCompletes)

SpecLive == Init /\ [][Next]_vars /\ EndpointAnswers

\* model resolution of every entry point around the one discovery call of
\* activate(); the endpoint is followed up to the submission only
NextActivation ==
  \/ DiscoverResolve
  \/ DiscoverReject
  \/ OpenEditor
  \/ ToolInvoke
  \/ SelectModelCommand
  \/ BoostCommand
  \/ ConfirmAnswer
  \/ ChooserAnswer
  \/ UpdateResolve
  \/ UpdateReject
  \/ SelectModelCommandReturn
  \/ ToolAfterSelect
  \/ CommandAfterSelect
  \/ BoostPromptEnter
  \/ SendRequestThrows
  \/ SendRequestNoResponse
  \/ ToolReturn
  \/ CommandAfterBoost

SpecActivation == Init /\ [][NextActivation]_vars

\* the model registry alone: initializeAndCacheModels called repeatedly
NextRegistry ==
  \/ DiscoverCall
  \/ DiscoverResolve
  \/ DiscoverReject

SpecRegistry == Init /\ [][NextRegistry]_vars

\* the file eligibility filter alone
NextFilter ==
  \/ ChangeActiveEditor
  \/ ChangeFilePatterns

\* the instruction template store alone
NextStore ==
  \/ EnsureInstructionFile
  \/ ReadInstructionFile
  \/ UserSavesInstructions
  \/ UserDeletesInstructions

InitStore == Init /\ preferredModel = ""

SpecStore == InitStore /\ [][NextStore]_vars

\* the boost command on an open prompt document
NextCommand ==
  \/ DiscoverResolve
  \/ OpenEditor
  \/ BoostCommand
  \/ ConfirmAnswer
  \/ ChooserAnswer
  \/ UpdateResolve
  \/ UpdateReject
  \/ CommandAfterSelect
  \/ BoostPromptEnter
  \/ SendRequestThrows
  \/ SendRequestNoResponse
  \/ SendRequestResponds
  \/ StreamFragment
  \/ StreamThrows
  \/ StreamCompletes
  \/ UserCancels
  \/ UserChangesSelection
  \/ UserDeletes
  \/ ProgressTick
  \/ CommandAfterBoost

InitCommand == Init /\ preferredModel = "gpt-x"

SpecCommand == InitCommand /\ [][NextCommand]_vars

\* two boostPrompt calls whose awaits interleave
NextConcurrent ==
  \/ CallBoostPrompt
  \/ CallSendRequestFails
  \/ CallSendRequestResponds
  \/ CallStreamFragment
  \/ CallStreamThrows
  \/ CallStreamCompletes

InitConcurrent == Init /\ preferredModel = ""

SpecConcurrent == InitConcurrent /\ [][NextConcurrent]_vars

InitFilter == Init /\ preferredModel = ""

SpecFilter == InitFilter /\ [][NextFilter]_vars
\* ------------------------------------------------------------ properties
Range(s) == { s[i] : i \in DOMAIN s }

RECURSIVE Concat(_)
Concat(ss) == IF ss = <<>> THEN <<>> ELSE Head(ss) \o Concat(Tail(ss))

IsBlank(s) == \A i \in DOMAIN s : s[i] \in Whitespace

NamesIn(cache) == { cache[i].name : i \in DOMAIN cache }

BpSettled == bp.event # "none"

\* C1: whatever the endpoint does (submission throws, no response object,
\* stream throws after any number of fragments, stream completes),
\* boostPrompt returns a tagged result, never raises, and its status is
\* 'success' or 'failed', never 'terminated'.
C1_TaggedResultNeverRaises ==
  /\ bp.pc # "raised"
  /\ BpSettled => bp.pc = "returned"
  /\ bp.pc = "returned" => bp.status \in {"success", "failed"}

C1_Witness ==
  /\ bp.pc = "returned"
  /\ bp.event = "streamThrew"
  /\ bp.status = "failed"

\* C2: when sendRequest throws, boostPrompt returns 'failed' with the
\* original promptText, no fragment has been consumed, nothing is raised.
C2_SubmissionThrows ==
  bp.event = "sendThrew" =>
    /\ bp.pc = "returned"
    /\ bp.status = "failed"
    /\ bp.result = bp.promptText
    /\ bp.delivered = <<>>
    /\ bp.enhanced = <<>>

C2_Witness ==
  /\ bp.event = "sendThrew"
  /\ bp.pc = "returned"
  /\ bp.promptText = <<" ", "p">>

\* C3: when the stream completes and the fragments concatenate to an empty
\* or whitespace-only text (the empty sequence included), boostPrompt
\* returns 'failed' with the original input text.
C3_BlankResponseFails ==
  (bp.event = "completed" /\ IsBlank(Concat(bp.delivered))) =>
    /\ bp.pc = "returned"
    /\ bp.status = "failed"
    /\ bp.result = bp.promptText

C3_Witness ==
  /\ bp.event = "completed"
  /\ bp.pc = "returned"
  /\ Len(bp.delivered) >= 2
  /\ Concat(bp.delivered) # <<>>
  /\ IsBlank(Concat(bp.delivered))
  /\ bp.promptText = <<"p">>

\* C4: when the stream throws after k >= 0 fragments, boostPrompt returns
\* 'failed' with the original promptText, never the partial text.
C4_StreamThrows ==
  bp.event = "streamThrew" =>
    /\ bp.pc = "returned"
    /\ bp.status = "failed"
    /\ bp.result = bp.promptText

C4_Witness ==
  /\ bp.event = "streamThrew"
  /\ bp.pc = "returned"
  /\ Len(bp.delivered) >= 2
  /\ ~IsBlank(bp.enhanced)
  /\ bp.enhanced # bp.promptText

\* C5: when the stream completes, the accumulated text is the concatenation
\* of the fragments in arrival order, and boostPrompt returns it with
\* 'success' exactly when it has a non-whitespace character.
C5_ConcatenationInOrder ==
  bp.event = "completed" =>
    /\ bp.pc = "returned"
    /\ bp.enhanced = Concat(bp.delivered)
    /\ bp.status = "success" <=> ~IsBlank(bp.enhanced)
    /\ bp.status = "success" => bp.result = bp.enhanced

C5_Witness ==
  /\ bp.event = "completed"
  /\ bp.status = "success"
  /\ bp.delivered = << <<"a">>, <<" ">>, <<"b">> >>
  /\ bp.result = <<"a", " ", "b">>

SelIsGetSelected == sel.fn = "getSelectedLanguageModel"

NoWrite == preferredModel = sel.prefAtEntry /\ pendingUpdate = NoUpdate

\* C6: getSelectedLanguageModel called while the cache is empty returns
\* 'none selected' whatever the Preference is, shows neither the
\* confirmation prompt nor the chooser, and does not write the Preference.
C6_EmptyCacheNoneSelected ==
  (SelIsGetSelected /\ sel.cacheAtEntry = <<>>) =>
    /\ sel.pc = "returned"
    /\ sel.result = NoModel
    /\ sel.confirm = "none"
    /\ sel.chooser = "none"
    /\ Range(ui) \cap {"warning:PreferredNotFound", "quickPick"} = {}
    /\ NoWrite

C6_Witness ==
  /\ SelIsGetSelected
  /\ sel.cacheAtEntry = <<>>
  /\ sel.prefAtEntry = "gpt-x"
  /\ sel.pc = "returned"

\* C7: when the Preference is non-empty and is the name of a cached
\* endpoint, getSelectedLanguageModel returns that endpoint, shows neither
\* the confirmation prompt nor the chooser, and leaves the Preference alone.
C7_PreferredFoundNoPrompt ==
  (SelIsGetSelected /\ sel.prefAtEntry # ""
     /\ sel.prefAtEntry \in NamesIn(sel.cacheAtEntry)) =>
    /\ sel.pc = "returned"
    /\ sel.result \in Range(sel.cacheAtEntry)
    /\ sel.result.name = sel.prefAtEntry
    /\ sel.confirm = "none"
    /\ sel.chooser = "none"
    /\ Range(ui) \cap {"warning:PreferredNotFound", "quickPick"} = {}
    /\ NoWrite

C7_Witness ==
  /\ SelIsGetSelected
  /\ sel.prefAtEntry = "gpt-x"
  /\ Len(sel.cacheAtEntry) = 2
  /\ sel.cacheAtEntry[2].name = "gpt-x"
  /\ sel.pc = "returned"
  /\ sel.result = sel.cacheAtEntry[2]

StalePreference ==
  /\ SelIsGetSelected
  /\ sel.cacheAtEntry # <<>>
  /\ sel.prefAtEntry # ""
  /\ sel.prefAtEntry \notin NamesIn(sel.cacheAtEntry)

\* C8: with a non-empty cache and a non-empty Preference naming no cached
\* endpoint, the confirmation prompt is the first thing shown; once the user
\* declines or dismisses it, 'none selected' is returned, the chooser is
\* never shown and the Preference keeps its stale value.
C8_StalePreferenceConfirmFirst ==
  StalePreference =>
    /\ ui # <<>>
    /\ ui[1] = "warning:PreferredNotFound"
    /\ sel.confirm # "none"
    /\ sel.confirm = "shown" => (sel.pc = "confirm" /\ sel.chooser = "none")
    /\ sel.confirm = "declined" =>
         /\ sel.pc = "returned"
         /\ sel.result = NoModel
         /\ sel.chooser = "none"
         /\ "quickPick" \notin Range(ui)
         /\ NoWrite

C8_Witness ==
  /\ StalePreference
  /\ sel.confirm = "declined"
  /\ sel.pc = "returned"
  /\ preferredModel = "Auto"

\* C9: when the chooser gave an endpoint, the Preference equals that
\* endpoint's name from the moment selectModel returns it: the write has
\* completed before the return.
C9_PreferenceWrittenBeforeReturn ==
  (sel.pc = "returned" /\ sel.chooser = "picked") =>
    /\ sel.result \in Range(sel.cacheAtEntry)
    /\ preferredModel = sel.result.name
    /\ pendingUpdate = NoUpdate

C9_Witness ==
  /\ sel.pc = "returned"
  /\ sel.chooser = "picked"
  /\ sel.cacheAtEntry = << [id |-> "g1", name |-> "gpt-x"] >>
  /\ sel.prefAtEntry = ""
  /\ preferredModel = "gpt-x"

\* C10: when the user dismisses the chooser, selectModel returns 'none
\* selected' without raising and the Preference is what it was at the call.
C10_DismissLeavesPreference ==
  sel.chooser = "dismissed" =>
    /\ sel.pc = "returned"
    /\ sel.result = NoModel
    /\ NoWrite

C10_Witness ==
  /\ sel.chooser = "dismissed"
  /\ sel.pc = "returned"
  /\ sel.confirm = "accepted"
  /\ preferredModel = "Auto"
WithoutAuto(models) == SelectSeq(models, LAMBDA m : m.id # "auto")

\* C11: after a discovery call that did not throw, the cache is the host's
\* list without its "auto" entries, for every host list (the empty one
\* included) and whatever the cache held before.
C11_CacheIsFilteredHostList ==
  lastDiscovery.outcome = "resolved" =>
    cachedAvailableModels = WithoutAuto(lastDiscovery.models)

\* C12: when the host discovery call throws, initializeAndCacheModels
\* completes and the cache is what it was before the call.
C12_DiscoveryFailureKeepsCache ==
  lastDiscovery.outcome = "threw" =>
    /\ discovery \in {"failed", "pending"}
    /\ cachedAvailableModels = lastDiscovery.before

C12_Witness ==
  /\ lastDiscovery.outcome = "threw"
  /\ discovery = "failed"
  /\ Len(lastDiscovery.before) = 2
  /\ cachedAvailableModels = lastDiscovery.before
Checked == lastCheck.result # "none"

HasWildcard(setting) ==
  setting.kind = "list" /\ StarPattern \in Range(setting.list)

IsEmptyList(setting) == setting.kind = "list" /\ setting.list = <<>>

\* C13 as stated: isBoostEnabledForFile returns true for every file name
\* whenever the configured pattern list is null, undefined, empty, or
\* contains "*".
C13_Original ==
  (Checked /\ (lastCheck.setting.kind \in {"null", "unset"}
                 \/ IsEmptyList(lastCheck.setting)
                 \/ HasWildcard(lastCheck.setting))) =>
    lastCheck.result = "true"

\* C13 amended: isBoostEnabledForFile returns true for every file name
\* whenever the configured pattern list is null, empty, or contains "*"
\* anywhere, regardless of the other patterns; a list that is not
\* configured is read as the default ["*.prompt.md"] and enables only the
\* names that match it.
C13_WildcardOrNoPatterns ==
  /\ (Checked /\ (lastCheck.setting.kind = "null"
                    \/ IsEmptyList(lastCheck.setting)
                    \/ HasWildcard(lastCheck.setting))) =>
       lastCheck.result = "true"
  /\ (Checked /\ lastCheck.setting.kind = "unset") =>
       (lastCheck.result = "true" <=> lastCheck.file.base = NPromptMd)
       /\ lastCheck.result \in {"true", "false"}

C13_Witness ==
  /\ lastCheck.result = "true"
  /\ lastCheck.setting = ListPatterns(<<NonStringPattern, StarPattern>>)
  /\ lastCheck.file.base = NMd
  /\ lastCheck.file.dir # <<>>
  /\ contextKey

\* C14: for a file name with forward or back slashes, eligibility depends
\* only on the final path segment, also when the name ends with a
\* separator and the final segment is empty.
C14_OnlyFinalSegment ==
  (Checked /\ lastCheck.file.sep # <<>>) =>
    lastCheck.result =
      isBoostEnabledForFile(lastCheck.file.base, lastCheck.setting)

MalformedIn(setting) ==
  setting.kind = "list" /\ NonStringPattern \in Range(setting.list)

\* C15: isBoostEnabledForFile never raises; a pattern the matcher fails
\* on counts as no match and the remaining patterns are still evaluated.
C15_NeverRaises ==
  /\ lastCheck.result # "raised"
  /\ (Checked /\ MalformedIn(lastCheck.setting)) =>
       (lastCheck.result = "true" <=>
          \/ HasWildcard(lastCheck.setting)
          \/ \E i \in DOMAIN lastCheck.setting.list :
               minimatch(baseName(FileName(lastCheck.file)),
                         lastCheck.setting.list[i]) = "match")
\* C16: once boost.prompt.md exists (written by an earlier call or edited
\* by the user), ensureInstructionFile leaves its contents identical and
\* does not raise; an I/O error in any call is swallowed.
C16_EnsureNeverOverwrites ==
  lastStoreOp.op = "ensure" =>
    /\ ~lastStoreOp.raised
    /\ lastStoreOp.before # Missing => lastStoreOp.text = lastStoreOp.before

C16_Witness ==
  /\ lastStoreOp.op = "ensure"
  /\ lastStoreOp.before = <<"u">>
  /\ lastStoreOp.io = "writeFails"
  /\ lastStoreOp.text = <<"u">>

\* C17: the instruction text readInstructionFile returns is never empty:
\* the default when the file is missing or unreadable, and non-empty text
\* in every file state, also after the user saved an empty file.
C17_InstructionsNeverEmpty ==
  lastStoreOp.op = "read" =>
    /\ lastStoreOp.text # <<>>
    /\ lastStoreOp.text # Missing
    /\ (lastStoreOp.before = Missing \/ lastStoreOp.io = "readFails") =>
         lastStoreOp.text = DEFAULT_BOOST_INSTRUCTIONS
\* C19: every finished invocation of the tool entry point returned a text
\* result: the enhanced text on success, the original promptText on
\* failure, and a text result also when no model could be resolved.
C19_ToolAlwaysReturnsText ==
  (inv.entry = "tool" /\ inv.pc = "done") =>
    /\ inv.outcome = "text"
    /\ inv.output = IF bp.status = "success" THEN bp.result ELSE inv.promptText
\* C18: once the user requested cancellation of a running boost, no
\* further fragment of the response is consumed.
C18_CancelStopsConsumption ==
  [][(CommandRunning /\ cmd.cancelRequested) => bp'.delivered = bp.delivered]_vars

\* C20: when a boost command succeeded, the range replaced is the range
\* whose text was sent as the prompt, and the text it held is that prompt.
C20_ReplacesTheRangeSent ==
  (inv.entry = "command" /\ inv.pc = "done" /\ inv.outcome = "replaced") =>
    /\ cmd.replaced = cmd.sent
    /\ cmd.replacedText = inv.promptText
\* C21: the step that ends the boost command changes the document and the
\* selection only when boostPrompt returned status "success"; on "failed"
\* the editor is left exactly as it was.
C21_EditOnlyOnSuccess ==
  [][(CommandRunning /\ inv'.pc = "done" /\ bp.status # "success")
       => editor' = editor]_vars

C21_Witness ==
  /\ inv.entry = "command"
  /\ inv.pc = "done"
  /\ inv.outcome = "failed"
  /\ bp.event = "streamThrew"
  /\ bp.enhanced # <<>>
  /\ cmd.replaced = NoSpan

\* C27: once the progress callback has returned, on every exit path, the
\* interval is cleared and the cancellation listener disposed, and no
\* progress tick has fired after the return.
C27_TimerAndListenerReleased ==
  (inv.entry = "command" /\ inv.pc = "done") =>
    /\ ~cmd.interval
    /\ ~cmd.listener
    /\ cmd.reported # "afterReturn"

C27_Witness ==
  /\ inv.entry = "command"
  /\ inv.pc = "done"
  /\ inv.outcome = "error"
  /\ cmd.reported = "running"
  /\ ~cmd.interval

\* the outcome notifications a boost command has shown
OutcomeNotifications ==
  SelectSeq(ui, LAMBDA n : n \in {"info:Success", "error:Failed",
                                  "info:Cancelled"})

\* C28: a boost command that entered the progress phase and has returned
\* showed exactly one notification among success, failed and cancelled.
C28_ExactlyOneOutcomeNotification ==
  (inv.entry = "command" /\ inv.pc = "done" /\ cmd.sent # NoSpan
     /\ inv.outcome \in {"replaced", "failed", "cancelled"}) =>
    Len(OutcomeNotifications) = 1

\* C29: a boost command whose cancellation was requested before boostPrompt
\* returned never edits the document, also when the response is a success.
C29_CancelledNeverEdits ==
  (inv.entry = "command" /\ inv.pc = "done" /\ cmd.cancelRequested) =>
    /\ inv.outcome # "replaced"
    /\ cmd.replaced = NoSpan

C29_Witness ==
  /\ inv.entry = "command"
  /\ inv.pc = "done"
  /\ cmd.cancelRequested
  /\ bp.status = "success"
  /\ inv.outcome = "cancelled"
\* C22: in every reachable state, after any sequence of successful, empty
\* and failing discovery calls, no endpoint of the cache has id "auto".
C22_NoAutoInCache ==
  \A i \in DOMAIN cachedAvailableModels : cachedAvailableModels[i].id # "auto"

\* an empty discovery after one whose host list held "auto" and another
\* endpoint
C22_Witness ==
  /\ lastDiscovery.outcome = "resolved"
  /\ lastDiscovery.models = <<>>
  /\ Len(lastDiscovery.before) = 1
  /\ cachedAvailableModels = lastDiscovery.before
\* C23: of two boostPrompt calls running concurrently, each returns the
\* concatenation of its own fragments on success and its own prompt on
\* failure, however the fragment arrivals interleave.
C23_OwnFragmentsOnly ==
  \A i \in Calls :
    calls[i].pc = "returned" =>
      calls[i].result = IF calls[i].status = "success"
                        THEN Concat(calls[i].delivered)
                        ELSE calls[i].promptText

C23_Witness ==
  /\ arrivals = <<1, 2, 1, 2>>
  /\ calls[1].pc = "returned" /\ calls[1].status = "success"
  /\ calls[2].pc = "returned" /\ calls[2].status = "success"
  /\ calls[1].result = <<"a", "a">>
  /\ calls[2].result = <<"b", "b">>
\* C24: while boostPrompt runs and after it returned, the cache is the one
\* the model was resolved from, and the preference is the one found at the
\* start of the resolution unless a chooser pick wrote the picked name
\* before boostPrompt was entered; no configuration write is in flight.
C24_BoostLeavesCacheAndPreference ==
  (inv.entry = "tool" /\ bp.pc # "idle") =>
    /\ cachedAvailableModels = sel.cacheAtEntry
    /\ pendingUpdate = NoUpdate
    /\ preferredModel = IF sel.chooser = "picked" THEN sel.result.name
                        ELSE sel.prefAtEntry

C24_Witness ==
  /\ inv.entry = "tool"
  /\ bp.pc = "returned"
  /\ bp.status = "success"
  /\ sel.chooser = "picked"
  /\ preferredModel = sel.result.name
  /\ preferredModel # sel.prefAtEntry

\* C25: the result boostPrompt returns is a non-empty string, for every
\* prompt text, the empty one and a missing one included.
C25_ResultNeverEmpty ==
  bp.pc = "returned" => (bp.result # <<>> /\ bp.result # Undefined)
\* the moves of a boostPrompt call between its states
BoostMoves ==
  { <<"idle", "pending">>, <<"pending", "sending">>,
    <<"pending", "returned">>, <<"sending", "streaming">>,
    <<"sending", "returned">>, <<"streaming", "returned">>,
    <<"returned", "idle">> }

\* C26: a boostPrompt call moves through pending, sending, streaming and
\* its terminal state in this order, submits at most one request, keeps its
\* terminal state until the next invocation begins, and, when the endpoint
\* answers and the stream ends or throws, reaches the terminal state.
C26_OneRequestOrderedTermination ==
  /\ [][/\ bp'.pc # bp.pc => <<bp.pc, bp'.pc>> \in BoostMoves
        /\ (bp.pc = "returned" /\ bp'.pc = "returned") => bp' = bp]_vars
  /\ [](bp.requests <= 1)
  /\ (bp.pc = "pending") ~> (bp.pc = "returned")

C26_Witness ==
  /\ bp.pc = "returned"
  /\ bp.event = "completed"
  /\ bp.requests = 1
  /\ Len(bp.delivered) >= 2
\* C30: while the discovery call of activate() is pending the cache is
\* empty; a resolution that finds the cache empty ends with no model and
\* no request is sent; once discovery completed with an endpoint other than
\* "auto" the cache is not empty, and a resolution that starts from a
\* non-empty cache never reports that no models are available.
C30_DiscoveryNotAwaited ==
  /\ discovery = "pending" => cachedAvailableModels = <<>>
  /\ (SelIsGetSelected /\ sel.cacheAtEntry = <<>>) =>
       /\ sel.pc = "returned"
       /\ sel.result = NoModel
       /\ bp.requests = 0
  /\ (discovery = "done" /\ WithoutAuto(lastDiscovery.models) # <<>>) =>
       cachedAvailableModels # <<>>
  /\ (sel.fn # "none" /\ sel.cacheAtEntry # <<>>) =>
       \A i \in DOMAIN ui : ui[i] # "error:NoModelsAvailable"

\* a boost command that ran to its end while discovery was still pending
C30_Witness ==
  /\ discovery = "pending"
  /\ inv.entry = "command"
  /\ inv.pc = "done"
  /\ inv.outcome = "noModel"
  /\ sel.result = NoModel
  /\ bp.requests = 0
====
